---- MODULE Spec2Model ----
(***************************************************************************)
(* A model of server.js of whiteboard-to-prototype: the POST /upload       *)
(* pipeline (multer, buildPrototypeWithClaudeAgent, addToHistory), the     *)
(* GET /history route, and the pure helpers (the HTML clean-up of the      *)
(* model's text, the system prompt, the cost calculation).                 *)
(*                                                                         *)
(* Texts are sequences of one-character strings, so that the regular       *)
(* expressions, trim() and startsWith() of the source are computed on      *)
(* characters.                                                             *)
(***************************************************************************)
EXTENDS Integers, Sequences, FiniteSets, TLC

\* ------------------------------------------------------------------------
\* Bounds of the model
\* ------------------------------------------------------------------------

\* A body text of the model's response is made of at most MaxParts chunks.
MaxParts == 2

\* The number of POST /upload requests.
NumRequests == 2

\* The clock (in milliseconds, the resolution of toISOString) runs from 0
\* to MaxClock.
MaxClock == 1

\* A custom instruction has at most MaxPromptLen words.
MaxPromptLen == 3

\* calculateCost is applied to the token counts 0..MaxSmallCount, among
\* others.
MaxSmallCount == 3

\* multer is given the file lengths up to MaxSizeDelta bytes, and those
\* within MaxSizeDelta bytes of a limit.
MaxSizeDelta == 8

\* compressImage is given the widths and heights up to MaxDimDelta pixels,
\* and those within MaxDimDelta pixels of MAX_IMAGE_SIZE and of its
\* multiples.
MaxDimDelta == 2

\* ------------------------------------------------------------------------
\* Configuration
\* ------------------------------------------------------------------------

\* Keep only last 100 sessions
HISTORY_LIMIT == 100

\* limits: { fileSize: 50 * 1024 * 1024 }
FILE_SIZE_LIMIT == 52428800

\* The limit the documentation gives: 10 * 1024 * 1024
DOCUMENTED_SIZE_LIMIT == 10485760

\* COST_PER_MILLION_INPUT: 15
COST_PER_MILLION_INPUT == 15

\* COST_PER_MILLION_OUTPUT: 75
COST_PER_MILLION_OUTPUT == 75

\* The divisor of calculateCost: tokens / 1000000
MILLION == 1000000

\* toFixed(6)
COST_DIGITS == 6

\* MAX_TOKENS: 16384
MAX_TOKENS == 16384

\* MAX_IMAGE_SIZE: 1024
MAX_IMAGE_SIZE == 1024

\* ------------------------------------------------------------------------
\* Texts
\* ------------------------------------------------------------------------

\* The backtick character (written by name: the character itself cannot
\* stand in a TLA+ string).
BT == "backtick"

NL == "\n"

SP == " "

RECURSIVE Flatten(_)
\* The concatenation of a sequence of texts.
Flatten(parts) ==
    IF parts = <<>> THEN <<>> ELSE Head(parts) \o Flatten(Tail(parts))

\* String.prototype.startsWith
StartsWith(s, p) ==
    /\ Len(s) >= Len(p)
    /\ SubSeq(s, 1, Len(p)) = p

\* The characters String.prototype.trim removes (of those the model uses).
IsSpace(c) == c \in {SP, NL, "\t", "\r"}

RECURSIVE TrimStart(_)
TrimStart(s) ==
    IF s # <<>> /\ IsSpace(Head(s)) THEN TrimStart(Tail(s)) ELSE s

RECURSIVE TrimEnd(_)
TrimEnd(s) ==
    IF s # <<>> /\ IsSpace(s[Len(s)]) THEN TrimEnd(SubSeq(s, 1, Len(s) - 1)) ELSE s

\* String.prototype.trim
Trim(s) == TrimEnd(TrimStart(s))

RECURSIVE RemoveAll(_, _)
\* String.prototype.replace with the global pattern pat followed by an
\* optional line feed, and the empty replacement: left to right, every
\* non-overlapping match is removed.
RemoveAll(s, pat) ==
    IF s = <<>> THEN <<>>
    ELSE IF StartsWith(s, pat)
         THEN LET rest == SubSeq(s, Len(pat) + 1, Len(s))
              IN  IF rest # <<>> /\ Head(rest) = NL
                  THEN RemoveAll(Tail(rest), pat)
                  ELSE RemoveAll(rest, pat)
         ELSE <<Head(s)>> \o RemoveAll(Tail(s), pat)

Fence == <<BT, BT, BT>>

HtmlWord == <<"h", "t", "m", "l">>

JsWord == <<"j", "s">>

FenceHtml == Fence \o HtmlWord

DoctypePrefix == <<"<", "!", "D", "O", "C", "T", "Y", "P", "E">>

HtmlPrefix == <<"<">> \o HtmlWord

DoctypeLine == DoctypePrefix \o <<SP>> \o HtmlWord \o <<">", NL>>

\* Ensure DOCTYPE: the guard of the prepend.
NeedsDoctype(html) ==
    /\ ~StartsWith(html, DoctypePrefix)
    /\ ~StartsWith(html, HtmlPrefix)

\* Remove any markdown code blocks: the html-tagged fences, then the bare
\* fences, then trim().
StripFences(text) == Trim(RemoveAll(RemoveAll(text, FenceHtml), Fence))

\* The content written to index.html for the model's text.
CleanHtml(text) ==
    LET html == StripFences(text)
    IN  IF NeedsDoctype(html) THEN DoctypeLine \o html ELSE html

\* ------------------------------------------------------------------------
\* The model's responses the clean-up is checked on
\* ------------------------------------------------------------------------

Chunks ==
    { Fence, <<BT>>, HtmlWord, JsWord, <<NL>>, <<SP>>,
      DoctypePrefix \o <<SP>> \o HtmlWord \o <<">">>,
      HtmlPrefix \o <<">">>,
      <<"<", "p", ">">>,
      <<"<", "!", "d", "o", "c", "t", "y", "p", "e", ">">> }

ChunkSeqs == UNION { [1..n -> Chunks] : n \in 0..MaxParts }

Bodies == { Flatten(cs) : cs \in ChunkSeqs }

FenceKinds == {"none", "generic", "html", "other"}

\* The model's text for body b under each way of fencing it.
Wrap(kind, b) ==
    CASE kind = "none"    -> b
      [] kind = "generic" -> Fence \o <<NL>> \o b \o <<NL>> \o Fence
      [] kind = "html"    -> FenceHtml \o <<NL>> \o b \o <<NL>> \o Fence
      [] kind = "other"   -> Fence \o JsWord \o <<NL>> \o b \o <<NL>> \o Fence

\* ------------------------------------------------------------------------
\* Cost calculation
\*
\* A number of dollars is held to seven decimals, as a count of units of
\* a ten-millionth of a dollar. The doubles of calculateCost differ from
\* the exact quotients and products by a relative error below 2^-50,
\* which for the token counts of a message is far less than half a
\* millionth: toFixed(6) rounds the double to the digits the exact value
\* is rounded to.
\* ------------------------------------------------------------------------

\* The decimals a number is held to.
UNIT_DIGITS == 7

Pow10(n) == 10 ^ n

\* The units in a dollar.
Units == Pow10(UNIT_DIGITS)

DigitChars == <<"0", "1", "2", "3", "4", "5", "6", "7", "8", "9">>

RECURSIVE DigitsOf(_)
\* The decimal digits of a natural number, with no leading zero.
DigitsOf(n) ==
    IF n < 10 THEN <<DigitChars[n + 1]>>
    ELSE DigitsOf(n \div 10) \o <<DigitChars[(n % 10) + 1]>>

RECURSIVE PadLeft(_, _)
\* The digits, zeros put before them up to the width.
PadLeft(digits, width) ==
    IF Len(digits) >= width THEN digits ELSE PadLeft(<<"0">> \o digits, width)

\* A variant: the fraction is written without its leading zeros.
ToFixedUnpadded(x, digits) ==
    LET unit == Units \div Pow10(digits)
        q    == (x + unit \div 2) \div unit
    IN  DigitsOf(q \div Pow10(digits)) \o <<".">> \o DigitsOf(q % Pow10(digits))

\* Number.prototype.toFixed: the number rounded to so many decimals (a
\* half goes up), written with exactly that many digits after the point.
ToFixed(x, digits) ==
    LET unit == Units \div Pow10(digits)
        q    == (x + unit \div 2) \div unit
    IN  DigitsOf(q \div Pow10(digits)) \o <<".">>
        \o PadLeft(DigitsOf(q % Pow10(digits)), digits)

DigitSet == { DigitChars[d] : d \in 1..10 }

DigitValues == [c \in DigitSet |-> CHOOSE d \in 0..9 : DigitChars[d + 1] = c]

\* The value of a digit character.
DigitValue(c) == DigitValues[c]

IsDigit(c) == c \in DigitSet

RECURSIVE NaturalFrom(_, _, _)
\* The digits from the i-th on, read after the number n.
NaturalFrom(digits, i, n) ==
    IF i > Len(digits) THEN n
    ELSE NaturalFrom(digits, i + 1, 10 * n + DigitValue(digits[i]))

\* The natural number a sequence of digits writes (0 for no digit).
NaturalOf(digits) == NaturalFrom(digits, 1, 0)

RECURSIVE ParseFrom(_, _, _, _)
\* The text s read from its i-th character on, value being the units read
\* so far and decimals the number of digits read after the point (-1
\* before the point): the reading ends at the first character that is no
\* digit and no first point, and the digits beyond the seventh decimal
\* are cut.
ParseFrom(s, i, value, decimals) ==
    IF i > Len(s) THEN value
    ELSE IF IsDigit(s[i])
         THEN IF decimals < 0
              THEN ParseFrom(s, i + 1, 10 * value + DigitValue(s[i]) * Units, decimals)
              ELSE IF decimals < UNIT_DIGITS
                   THEN ParseFrom(s, i + 1,
                                  value + DigitValue(s[i]) * Pow10(UNIT_DIGITS - decimals - 1),
                                  decimals + 1)
                   ELSE ParseFrom(s, i + 1, value, decimals)
         ELSE IF s[i] = "." /\ decimals < 0
              THEN ParseFrom(s, i + 1, value, 0)
              ELSE value

\* parseFloat of a text that starts with a digit: the digits, and after a
\* point the digits that follow it.
ParseFloat(s) == ParseFrom(s, 1, 0, 0 - 1)

\* tokens / 1000000: a million is a divisor of the units in a dollar, so
\* the quotient is a whole count of units.
PerMillion(tokens) == tokens * (Units \div MILLION)

\* A variant: the input is billed by the started thousand of tokens.
CalculateCostByThousand(inputTokens, outputTokens) ==
    LET inputCost  == PerMillion(((inputTokens + 999) \div 1000) * 1000)
                      * COST_PER_MILLION_INPUT
        outputCost == PerMillion(outputTokens) * COST_PER_MILLION_OUTPUT
        totalCost  == inputCost + outputCost
    IN  [inputCost  |-> ToFixed(inputCost, COST_DIGITS),
         outputCost |-> ToFixed(outputCost, COST_DIGITS),
         totalCost  |-> ToFixed(totalCost, COST_DIGITS)]

\* calculateCost
CalculateCost(inputTokens, outputTokens) ==
    LET inputCost  == PerMillion(inputTokens) * COST_PER_MILLION_INPUT
        outputCost == PerMillion(outputTokens) * COST_PER_MILLION_OUTPUT
        totalCost  == inputCost + outputCost
    IN  [inputCost  |-> ToFixed(inputCost, COST_DIGITS),
         outputCost |-> ToFixed(outputCost, COST_DIGITS),
         totalCost  |-> ToFixed(totalCost, COST_DIGITS)]

\* ------------------------------------------------------------------------
\* State
\* ------------------------------------------------------------------------

VARIABLES
    now,         \* the clock: what new Date() returns
    pc,          \* pc[r]: where request r of POST /upload stands
    kind,        \* kind[r]: what request r uploads
    outputDir,   \* outputDir[r]: the timestamp in outputDir
    calls,       \* calls[r]: the calls of anthropic.messages.create
    message,     \* message[r]: what anthropic.messages.create returned
    result,      \* result[r]: what buildPrototypeWithClaudeAgent returned
    history,     \* history[r]: history.sessions in addToHistory
    response,    \* response[r]: the response sent to request r
    logs,        \* logs[r]: the outcomes logged for request r
    outDirs,     \* __output__/prototype-<timestamp>/
    histFile,    \* history/whiteboard-history.json
    gpc,         \* where the GET /history request stands
    gLoaded,     \* what loadHistory returned to GET /history
    gResponse,   \* the response of GET /history
    sBody,       \* clean-up: the body text the model was to return
    sFence,      \* clean-up: the way the model fenced it
    sText,       \* clean-up: message.content[0].text
    sHtml,       \* clean-up: htmlContent as written to index.html
    pBody,       \* prompt: req.body.prompt
    pCustom,     \* prompt: customPrompt
    pPrompt,     \* prompt: systemPrompt
    cInput,      \* cost: inputTokens
    cExtra,      \* cost: a second count of input tokens
    cOutput,     \* cost: outputTokens
    cCosts,      \* cost: what calculateCost returned
    fMime,       \* upload: file.mimetype of a file part
    fSize,       \* upload: the length of the file in bytes
    fError,      \* upload: the error multer raises for the file
    iWidth,      \* image: metadata.width of the source
    iHeight,     \* image: metadata.height of the source
    iOut,        \* image: the width and height compressImage wrote
    apiKey,      \* startup: process.env.ANTHROPIC_API_KEY
    boot,        \* startup: where startServer stands
    exitCode     \* startup: the code the process exited with

uvars == <<now, pc, kind, outputDir, calls, message, result, history, response,
           logs, outDirs, histFile>>

gvars == <<gpc, gLoaded, gResponse>>

svars == <<sBody, sFence, sText, sHtml>>

pvars == <<pBody, pCustom, pPrompt>>

cvars == <<cInput, cExtra, cOutput, cCosts>>

fvars == <<fMime, fSize, fError>>

ivars == <<iWidth, iHeight, iOut>>

bvars == <<apiKey, boot, exitCode>>

vars == <<uvars, gvars, svars, pvars, cvars, fvars, ivars, bvars>>

Requests == 1..NumRequests

Clock == 0..MaxClock

\* The value of a timestamp not taken.
Unset == -1

\* ------------------------------------------------------------------------
\* Files
\* ------------------------------------------------------------------------

\* index.html or thumbnail.jpg of an output directory: the request that
\* wrote it last (0: no file) and, for index.html, its content.
NoFile == [by |-> 0, content |-> <<>>]

NoDir == [exists |-> FALSE, index |-> NoFile, thumb |-> NoFile]

\* The history file is absent ("absent"), cannot be read ("unreadable"),
\* holds text that is not JSON ("text"), or holds JSON: an object with no
\* sessions member or null ("object"), an object whose sessions member is
\* a number ("number"), or a document with a sessions list ("doc").
FileOf(k, sessions) == [kind |-> k, sessions |-> sessions]

\* return { sessions: [] }
EmptyHistory == FileOf("doc", <<>>)

\* A session recorded before the server started; of its members only the
\* identifier is looked at.
StoredSession(i) == [sessionId |-> 0 - i]

StoredSessions(n) == [i \in 1..n |-> StoredSession(i)]

\* The history files the server may start with: no file, JSON that is no
\* history document, or a document one session short of the limit. (Text
\* that is not JSON is what a torn write leaves.)
StartFiles ==
    { FileOf(k, <<>>) : k \in {"absent", "object"} }
    \cup { FileOf("doc", StoredSessions(HISTORY_LIMIT - 1)) }

\* The other damaged files GET /history may find at the start.
MoreStartFiles == { FileOf(k, <<>>) : k \in {"text", "unreadable", "number"} }

\* ------------------------------------------------------------------------
\* The history store
\* ------------------------------------------------------------------------

\* Whether loadHistory, having found the file, fails in readFile or in
\* JSON.parse; the failure is caught and logged.
LoadFails(file) == file.kind \in {"unreadable", "text"}

\* What loadHistory returns for the file it found: what JSON.parse
\* returned, or the empty history after a failure.
LoadHistory(file) ==
    IF file.kind = "absent" \/ LoadFails(file) THEN EmptyHistory ELSE file

\* A variant: push in place of unshift.
Push(sessions, session) == sessions \o <<session>>

\* history.sessions.unshift(session)
Unshift(sessions, session) == <<session>> \o sessions

\* A variant: the list is never cut.
KeepAll(sessions) == sessions

\* Keep only last 100 sessions
KeepLast(sessions) ==
    IF Len(sessions) > HISTORY_LIMIT
    THEN SubSeq(sessions, 1, HISTORY_LIMIT)
    ELSE sessions

\* history.sessions.unshift throws a TypeError unless sessions is a list.
CanUnshift(loaded) == loaded.kind = "doc"

\* history.sessions.length throws a TypeError when history is null or has
\* no sessions member.
CanCount(loaded) == loaded.kind \in {"doc", "number"}

\* The ways writeFile settles: the document is written; the file cannot
\* be opened and stays as it was; or the write fails on the opened, cut
\* file and leaves a part of the text.
WriteOutcomes == {"written", "refused", "torn"}

\* A variant: a write that fails leaves an empty document.
SavedFileEmptied(file, sessions, outcome) ==
    IF outcome = "written" THEN FileOf("doc", sessions) ELSE FileOf("doc", <<>>)

\* What saveHistory leaves in the file.
SavedFile(file, sessions, outcome) ==
    CASE outcome = "written" -> FileOf("doc", sessions)
      [] outcome = "refused" -> file
      [] outcome = "torn"    -> FileOf("text", <<>>)

\* ------------------------------------------------------------------------
\* Responses
\* ------------------------------------------------------------------------

\* The token counts of a record: input and output.
NoTokens == [input |-> Unset, output |-> Unset]

NoCosts == [inputCost |-> <<>>, outputCost |-> <<>>, totalCost |-> <<>>]

NoResponse ==
    [status |-> 0, json |-> FALSE, success |-> FALSE, sessionId |-> FALSE,
     error |-> "", demoUrl |-> Unset, thumbnailUrl |-> Unset, outputDir |-> Unset,
     tokens |-> NoTokens, cost |-> Unset, sent |-> 0]

\* The error handler of the framework answers an error passed to next():
\* no JSON body.
FrameworkError(why) ==
    [NoResponse EXCEPT !.status = 500, !.error = why]

\* res.status(400).json({ success: false, error: 'No file uploaded' })
NoFileResponse ==
    [NoResponse EXCEPT !.status = 400, !.json = TRUE, !.error = "No file uploaded"]

\* res.status(500).json({ success: false, sessionId, error })
FailureResponse(why) ==
    [NoResponse EXCEPT !.status = 500, !.json = TRUE, !.sessionId = TRUE,
                       !.error = why]

\* res.json({ success: true, sessionId, demoUrl, thumbnailUrl, outputDir,
\* tokens, cost, ... })
SuccessResponse(res) ==
    [NoResponse EXCEPT !.status = 200, !.json = TRUE, !.success = TRUE,
                       !.sessionId = TRUE, !.demoUrl = res.prototypeUrl,
                       !.thumbnailUrl = res.thumbnailUrl,
                       !.outputDir = res.outputDir,
                       !.tokens = res.tokens, !.cost = res.cost]

NoResult == [success |-> FALSE, outputDir |-> Unset, prototypeUrl |-> Unset,
             thumbnailUrl |-> Unset, tokens |-> NoTokens, cost |-> Unset,
             costs |-> NoCosts]

\* A variant: the cost of the result is the cost of the input.
BuildResultInputCost(d, usage) ==
    CHOOSE res \in
        { [success |-> TRUE, outputDir |-> d, prototypeUrl |-> d, thumbnailUrl |-> d,
           tokens |-> [input |-> usage.input_tokens, output |-> usage.output_tokens],
           cost |-> ParseFloat(costs.inputCost),
           costs |-> costs]
          : costs \in {CalculateCost(usage.input_tokens, usage.output_tokens)} } : TRUE

\* The record buildPrototypeWithClaudeAgent returns for output directory d
\* and the usage of the message; costs is what the one call of
\* calculateCost returned.
BuildResult(d, usage) ==
    CHOOSE res \in
        { [success |-> TRUE, outputDir |-> d, prototypeUrl |-> d, thumbnailUrl |-> d,
           tokens |-> [input |-> usage.input_tokens, output |-> usage.output_tokens],
           cost |-> ParseFloat(costs.totalCost),
           costs |-> costs]
          : costs \in {CalculateCost(usage.input_tokens, usage.output_tokens)} } : TRUE

\* A variant: one identifier for every request.
SharedIdEntry(r, res) ==
    [sessionId |-> 1, outputDir |-> res.outputDir, thumbnailUrl |-> res.thumbnailUrl,
     tokens |-> res.tokens, cost |-> res.cost]

\* historyEntry of request r
HistoryEntry(r, res) ==
    [sessionId |-> r, outputDir |-> res.outputDir, thumbnailUrl |-> res.thumbnailUrl,
     tokens |-> res.tokens, cost |-> res.cost]

\* ------------------------------------------------------------------------
\* POST /upload
\*
\* An action is the code between two awaits that settle on shared state
\* (the clock, the output directories, the history file) or on the model;
\* the awaits in between (mkdir, sharp, readFile of the request's own
\* image) settle inside the action.
\* ------------------------------------------------------------------------

\* What a request uploads: no file, a file whose MIME type is no image
\* type, an image, a file of an image type that sharp cannot decode, or
\* an image longer than the size limit.
UploadKinds == {"none", "other", "image", "badimage", "toolarge"}

ImagePrefix == <<"i", "m", "a", "g", "e", "/">>

TextPlain == <<"t", "e", "x", "t", "/", "p", "l", "a", "i", "n">>

ImagePng == ImagePrefix \o <<"p", "n", "g">>

\* file.mimetype of the part the request carries.
MimeTypeOf(k) == IF k = "other" THEN TextPlain ELSE ImagePng

\* The length of the file in bytes.
SizeOf(k) == IF k = "toolarge" THEN FILE_SIZE_LIMIT + 1 ELSE 1024

\* A variant: the filter passes every file.
AnyFile(mime) == TRUE

\* fileFilter: file.mimetype.startsWith('image/')
FileFilter(mime) == StartsWith(mime, ImagePrefix)

\* limits.fileSize: multer stops a file that is longer.
WithinLimit(size) == size <= FILE_SIZE_LIMIT

\* What multer passes to next() for a file part of that type and length,
\* "" when it accepts it: the filter runs on the header of the part, the
\* limit while its bytes are read.
FileError(mime, size) ==
    CASE ~FileFilter(mime)  -> "Only image files are allowed"
      [] ~WithinLimit(size) -> "File too large"
      [] OTHER              -> ""

\* What multer passes to next() for the request, "" when it accepts it. A
\* request with no file part passes.
MulterError(k) ==
    IF k = "none" THEN "" ELSE FileError(MimeTypeOf(k), SizeOf(k))

\* The page the model draws for request r: each request gets its own.
PageOf(r) ==
    DoctypePrefix \o <<SP>> \o HtmlWord \o <<">">>
    \o Flatten([i \in 1..r |-> <<"<", "p", ">">>])

\* message.content[0].text for request r: the page in an html fence.
ModelTextOf(r) == Wrap("html", PageOf(r))

\* message.usage for request r: each request gets its own counts.
UsageOf(r) == [input_tokens |-> 1200 * r, output_tokens |-> 350 * r]

\* A message of the model: its content has no block ("nocontent"), a first
\* block with no text ("notext"), or a first block with a text ("text").
Message(content, text, usage) == [content |-> content, text |-> text, usage |-> usage]

NoMessage == Message("unset", <<>>, [input_tokens |-> Unset, output_tokens |-> Unset])

\* The messages the model may return to request r.
MessagesOf(r) ==
    { Message("nocontent", <<>>, UsageOf(r)),
      Message("notext", <<>>, UsageOf(r)),
      Message("text", ModelTextOf(r), UsageOf(r)) }

\* A message whose text is empty.
EmptyMessagesOf(r) == { Message("text", <<>>, UsageOf(r)) }

\* Request r ends with response resp, one more response sent to it; its
\* variables are gone.
Answer(r, resp) ==
    /\ response' = [response EXCEPT ![r] = [resp EXCEPT !.sent = response[r].sent + 1]]
    /\ pc' = [pc EXCEPT ![r] = "done"]
    /\ outputDir' = [outputDir EXCEPT ![r] = Unset]
    /\ history' = [history EXCEPT ![r] = <<>>]

\* A variant: the catch of the route handler sends nothing.
FailSilently(r, why) ==
    /\ pc' = [pc EXCEPT ![r] = "done"]
    /\ outputDir' = [outputDir EXCEPT ![r] = Unset]
    /\ history' = [history EXCEPT ![r] = <<>>]
    /\ UNCHANGED response

\* The catch of the route handler.
Fail(r, why) == Answer(r, FailureResponse(why))

\* new Date() returns a later instant.
Tick ==
    /\ now < MaxClock
    /\ now' = now + 1
    /\ UNCHANGED <<pc, kind, outputDir, calls, message, result, history, response,
                   logs, outDirs, histFile>>
    /\ UNCHANGED <<gvars, svars, pvars, cvars, fvars, ivars, bvars>>

\* upload.single('whiteboard'), once the server listens: the file filter
\* passes image types only and the limit stops a long file; the error goes
\* to the framework and the route handler is not called.
MulterUpload(r) ==
    /\ boot = "listening"
    /\ pc[r] = "idle"
    /\ \E k \in UploadKinds :
          /\ kind' = [kind EXCEPT ![r] = k]
          /\ IF MulterError(k) # ""
             THEN Answer(r, FrameworkError(MulterError(k)))
             ELSE /\ pc' = [pc EXCEPT ![r] = "handler"]
                  /\ UNCHANGED <<response, outputDir, history>>
    /\ UNCHANGED <<now, calls, message, result, logs, outDirs, histFile>>
    /\ UNCHANGED <<gvars, svars, pvars, cvars, fvars, ivars, bvars>>

\* The route handler: the test of req.file; then
\* buildPrototypeWithClaudeAgent names the output directory by the clock,
\* makes it, compresses and encodes the image and sends the request to the
\* model. A failure of mkdir or of sharp reaches the catch of the handler.
UploadHandler(r) ==
    /\ pc[r] = "handler"
    /\ IF kind[r] = "none"
       THEN /\ Answer(r, NoFileResponse)
            /\ UNCHANGED <<outDirs, calls>>
       ELSE \E mkdirOk \in BOOLEAN :
               IF ~mkdirOk
               THEN /\ Fail(r, "mkdir")
                    /\ UNCHANGED <<outDirs, calls>>
               ELSE /\ outDirs' = [outDirs EXCEPT ![now].exists = TRUE]
                    /\ IF kind[r] = "badimage"
                       THEN /\ Fail(r, "compress")
                            /\ UNCHANGED calls
                       ELSE /\ outputDir' = [outputDir EXCEPT ![r] = now]
                            /\ calls' = [calls EXCEPT ![r] = calls[r] + 1]
                            /\ pc' = [pc EXCEPT ![r] = "call"]
                            /\ UNCHANGED <<response, history>>
    /\ UNCHANGED <<now, kind, message, result, logs, histFile>>
    /\ UNCHANGED <<gvars, svars, pvars, cvars, fvars, ivars, bvars>>

\* A variant: the call is made again after it throws.
RetryModel(r) ==
    IF calls[r] < 2
    THEN /\ calls' = [calls EXCEPT ![r] = calls[r] + 1]
         /\ UNCHANGED <<pc, response, outputDir, history, outDirs, message>>
    ELSE /\ Fail(r, "model")
         /\ UNCHANGED <<calls, outDirs, message>>

\* anthropic.messages.create throws: the catch of the build logs the error
\* and throws it again, to the catch of the route handler.
ModelThrows(r) ==
    /\ Fail(r, "model")
    /\ UNCHANGED <<calls, outDirs, message>>

\* A variant: a failure of the write of index.html is not looked at.
ModelReturnsUnchecked(r, m) ==
    /\ message' = [message EXCEPT ![r] = m]
    /\ IF m.content # "text"
       THEN /\ Fail(r, m.content)
            /\ UNCHANGED outDirs
       ELSE /\ \E writeOk \in BOOLEAN :
                  outDirs' = IF writeOk
                             THEN [outDirs EXCEPT ![outputDir[r]].index =
                                      [by |-> r, content |-> CleanHtml(m.text)]]
                             ELSE outDirs
            /\ pc' = [pc EXCEPT ![r] = "thumb"]
            /\ UNCHANGED <<response, outputDir, history>>
    /\ UNCHANGED calls

\* anthropic.messages.create returns message m. message.content[0].text
\* throws a TypeError when there is no block, and the replace of the text
\* when the block has no text; a text is cleaned and written to
\* index.html, and a failure of the write reaches the catch of the
\* handler.
ModelReturns(r, m) ==
    /\ message' = [message EXCEPT ![r] = m]
    /\ IF m.content # "text"
       THEN /\ Fail(r, m.content)
            /\ UNCHANGED outDirs
       ELSE \E writeOk \in BOOLEAN :
               IF writeOk
               THEN /\ outDirs' = [outDirs EXCEPT ![outputDir[r]].index =
                                      [by |-> r, content |-> CleanHtml(m.text)]]
                    /\ pc' = [pc EXCEPT ![r] = "thumb"]
                    /\ UNCHANGED <<response, outputDir, history>>
               ELSE /\ Fail(r, "write")
                    /\ UNCHANGED outDirs
    /\ UNCHANGED calls

\* anthropic.messages.create settles for request r, the message it
\* returns being one of messages.
ModelRespondsWith(r, messages) ==
    /\ pc[r] = "call"
    /\ \/ ModelThrows(r)
       \/ \E m \in messages : ModelReturns(r, m)
    /\ UNCHANGED <<now, kind, result, logs, histFile>>
    /\ UNCHANGED <<gvars, svars, pvars, cvars, fvars, ivars, bvars>>

\* The model answers request r with its page or with a message that has
\* no text.
ModelResponds(r) == ModelRespondsWith(r, MessagesOf(r))

\* The same, the message with an empty text included.
ModelRespondsOrEmpty(r) == ModelRespondsWith(r, MessagesOf(r) \cup EmptyMessagesOf(r))

\* addToHistory up to its first await on the file: when existsSync finds
\* no file, the session is put in the empty history and the write starts;
\* otherwise readFile starts.
StartAppend(r, res) ==
    IF histFile.kind = "absent"
    THEN /\ history' = [history EXCEPT ![r] =
                KeepLast(Unshift(LoadHistory(histFile).sessions, HistoryEntry(r, res)))]
         /\ pc' = [pc EXCEPT ![r] = "histSave"]
    ELSE /\ pc' = [pc EXCEPT ![r] = "histRead"]
         /\ UNCHANGED history

\* createThumbnail settles (a failure is logged and swallowed), the build
\* returns its result, and the handler calls addToHistory.
Thumbnail(r) ==
    /\ pc[r] = "thumb"
    /\ \E ok \in BOOLEAN :
          IF ok
          THEN /\ outDirs' = [outDirs EXCEPT ![outputDir[r]].thumb =
                                 [by |-> r, content |-> <<>>]]
               /\ UNCHANGED logs
          ELSE /\ logs' = [logs EXCEPT ![r] = @ \cup {"Thumbnail creation failed"}]
               /\ UNCHANGED outDirs
    /\ \E res \in {BuildResult(outputDir[r], message[r].usage)} :
          /\ result' = [result EXCEPT ![r] = res]
          /\ StartAppend(r, res)
    /\ UNCHANGED <<now, kind, outputDir, calls, message, response, histFile>>
    /\ UNCHANGED <<gvars, svars, pvars, cvars, fvars, ivars, bvars>>

\* loadHistory settles in addToHistory; the session is unshifted, the list
\* cut to its limit, and the write of the file starts. The TypeError of
\* unshift reaches the catch of the route handler.
ReadHistory(r) ==
    /\ pc[r] = "histRead"
    /\ logs' = [logs EXCEPT ![r] =
                  IF LoadFails(histFile) THEN @ \cup {"Failed to load history"} ELSE @]
    /\ LET loaded == LoadHistory(histFile)
       IN  IF CanUnshift(loaded)
           THEN /\ history' = [history EXCEPT ![r] =
                       KeepLast(Unshift(loaded.sessions, HistoryEntry(r, result[r])))]
                /\ pc' = [pc EXCEPT ![r] = "histSave"]
                /\ UNCHANGED <<response, outputDir>>
           ELSE Fail(r, "TypeError")
    /\ UNCHANGED <<now, kind, calls, message, result, outDirs, histFile>>
    /\ UNCHANGED <<gvars, svars, pvars, cvars, fvars, ivars, bvars>>

\* saveHistory settles (a failure is logged and swallowed), addToHistory
\* returns, and the handler answers success.
SaveHistory(r) ==
    /\ pc[r] = "histSave"
    /\ \E outcome \in WriteOutcomes :
          /\ histFile' = SavedFile(histFile, history[r], outcome)
          /\ logs' = [logs EXCEPT ![r] = @ \cup
                         {IF outcome = "written" THEN "History saved successfully"
                                                 ELSE "Failed to save history"}]
    /\ Answer(r, SuccessResponse(result[r]))
    /\ UNCHANGED <<now, kind, calls, message, result, outDirs>>
    /\ UNCHANGED <<gvars, svars, pvars, cvars, fvars, ivars, bvars>>

\* ------------------------------------------------------------------------
\* GET /history
\* ------------------------------------------------------------------------

NoHistoryResponse == [status |-> 0, success |-> FALSE, total |-> Unset]

\* res.json({ success: true, sessions, total }) of the loaded history, or
\* the answer of the catch when sessions.length throws. The length of a
\* number is undefined.
HistoryResponse(loaded) ==
    IF CanCount(loaded)
    THEN [status |-> 200, success |-> TRUE,
          total |-> IF loaded.kind = "doc" THEN Len(loaded.sessions) ELSE Unset]
    ELSE [status |-> 500, success |-> FALSE, total |-> Unset]

\* The handler up to the first await of loadHistory on the file; with no
\* file the empty history is answered at once.
GetHistory ==
    /\ boot = "listening"
    /\ gpc = "idle"
    /\ IF histFile.kind = "absent"
       THEN /\ gLoaded' = LoadHistory(histFile)
            /\ gResponse' = HistoryResponse(LoadHistory(histFile))
            /\ gpc' = "done"
       ELSE /\ gpc' = "read"
            /\ UNCHANGED <<gLoaded, gResponse>>
    /\ UNCHANGED <<uvars, svars, pvars, cvars, fvars, ivars, bvars>>

\* loadHistory settles and the handler answers.
GetHistoryRead ==
    /\ gpc = "read"
    /\ gLoaded' = LoadHistory(histFile)
    /\ gResponse' = HistoryResponse(LoadHistory(histFile))
    /\ gpc' = "done"
    /\ UNCHANGED <<uvars, svars, pvars, cvars, fvars, ivars, bvars>>

\* ------------------------------------------------------------------------
\* The system prompt
\*
\* A prompt is a sequence of pieces: each section of the template is one
\* piece, the custom instruction is a sequence of words.
\* ------------------------------------------------------------------------

\* A text field of the form: absent from req.body, or a text.
NoField == [present |-> FALSE, text |-> <<>>]

Field(text) == [present |-> TRUE, text |-> text]

PromptWords == {"dark", "mode", SP}

PromptTexts == UNION { [1..n -> PromptWords] : n \in 0..MaxPromptLen }

\* req.body.prompt || '': undefined and the empty string are falsy.
CustomPromptOf(field) ==
    IF field.present /\ field.text # <<>> THEN field.text ELSE <<>>

TemplateIntro == "You are an expert web developer ... TASK"

DesignSpecifications == "MANDATORY DESIGN SPECIFICATIONS (unless user explicitly overrides)"

FunctionalityRequirements == "FUNCTIONALITY REQUIREMENTS"

TechnicalRequirements == "TECHNICAL REQUIREMENTS"

WhiteboardInterpretation == "WHITEBOARD INTERPRETATION"

OverridesHeader == "=== USER-SPECIFIED OVERRIDES ==="

OverridesFooter == "(These instructions override the default design specifications above)"

OutputRequirements == "CRITICAL OUTPUT REQUIREMENTS"

\* ${customPrompt ? `... ${customPrompt} ...` : ''}: the empty string is
\* falsy.
OverridesSection(customPrompt) ==
    IF customPrompt # <<>>
    THEN <<OverridesHeader>> \o customPrompt \o <<OverridesFooter>>
    ELSE <<>>

\* A variant: the custom instruction takes the place of the design
\* specifications.
ReplacingPrompt(customPrompt) ==
    <<TemplateIntro>>
    \o (IF customPrompt # <<>> THEN customPrompt ELSE <<DesignSpecifications>>)
    \o <<FunctionalityRequirements, TechnicalRequirements, WhiteboardInterpretation,
         OutputRequirements>>

\* systemPrompt
SystemPrompt(customPrompt) ==
    <<TemplateIntro, DesignSpecifications, FunctionalityRequirements,
      TechnicalRequirements, WhiteboardInterpretation>>
    \o OverridesSection(customPrompt)
    \o <<OutputRequirements>>

PromptIdle ==
    /\ pBody = NoField
    /\ pCustom = <<"?">>
    /\ pPrompt = <<>>

\* ------------------------------------------------------------------------
\* Specifications
\* ------------------------------------------------------------------------

UploadsIdle ==
    /\ now = 0
    /\ pc = [r \in Requests |-> "idle"]
    /\ kind = [r \in Requests |-> "unset"]
    /\ outputDir = [r \in Requests |-> Unset]
    /\ calls = [r \in Requests |-> 0]
    /\ message = [r \in Requests |-> NoMessage]
    /\ result = [r \in Requests |-> NoResult]
    /\ history = [r \in Requests |-> <<>>]
    /\ response = [r \in Requests |-> NoResponse]
    /\ logs = [r \in Requests |-> {}]
    /\ outDirs = [t \in Clock |-> NoDir]
    /\ gpc = "idle"
    /\ gLoaded = EmptyHistory
    /\ gResponse = NoHistoryResponse

CleanUpIdle ==
    /\ sBody = <<>>
    /\ sFence = "unset"
    /\ sText = <<>>
    /\ sHtml = <<>>

CostIdle ==
    /\ cInput = 0
    /\ cExtra = 0
    /\ cOutput = 0
    /\ cCosts = NoCosts

FileIdle ==
    /\ fMime = ImagePng
    /\ fSize = 0
    /\ fError = ""

NoSize == [width |-> 0, height |-> 0]

ImageIdle ==
    /\ iWidth = 1
    /\ iHeight = 1
    /\ iOut = NoSize

\* startServer has found the key and listens.
Started ==
    /\ apiKey = "set"
    /\ boot = "listening"
    /\ exitCode = Unset

Init ==
    /\ UploadsIdle
    /\ histFile \in StartFiles
    /\ CleanUpIdle
    /\ PromptIdle
    /\ CostIdle
    /\ FileIdle
    /\ ImageIdle
    /\ Started

\* The steps of the upload requests, which run concurrently.
Next ==
    \/ Tick
    \/ \E r \in Requests : MulterUpload(r)
    \/ \E r \in Requests : UploadHandler(r)
    \/ \E r \in Requests : ModelResponds(r)
    \/ \E r \in Requests : Thumbnail(r)
    \/ \E r \in Requests : ReadHistory(r)
    \/ \E r \in Requests : SaveHistory(r)

Spec == Init /\ [][Next]_vars

\* The uploads together with a GET /history request.
InitWithGet ==
    /\ UploadsIdle
    /\ histFile \in StartFiles \cup MoreStartFiles
    /\ CleanUpIdle
    /\ PromptIdle
    /\ CostIdle
    /\ FileIdle
    /\ ImageIdle
    /\ Started

NextWithGet == Next \/ GetHistory \/ GetHistoryRead

SpecWithGet == InitWithGet /\ [][NextWithGet]_vars

\* A request is in the read-modify-write of addToHistory.
Appending(r) == pc[r] \in {"histRead", "histSave"}

\* At most one request is in addToHistory.
Serial == \A r, q \in Requests : Appending(r) /\ Appending(q) => r = q

\* Request r enters addToHistory when no other request is in it.
ThumbnailInTurn(r) == Thumbnail(r) /\ Serial'

\* The uploads when no two of them are in addToHistory at once.
NextSerial ==
    \/ Tick
    \/ \E r \in Requests : MulterUpload(r)
    \/ \E r \in Requests : UploadHandler(r)
    \/ \E r \in Requests : ModelResponds(r)
    \/ \E r \in Requests : ThumbnailInTurn(r)
    \/ \E r \in Requests : ReadHistory(r)
    \/ \E r \in Requests : SaveHistory(r)

SpecSerial == Init /\ [][NextSerial]_vars

\* The clean-up of the model's text, on every body text and fence.
Pending == <<"?">>

SInit ==
    /\ UploadsIdle
    /\ histFile = EmptyHistory
    /\ sBody \in Bodies
    /\ sFence = "unset"
    /\ sText = Pending
    /\ sHtml = Pending
    /\ PromptIdle
    /\ CostIdle
    /\ FileIdle
    /\ ImageIdle
    /\ Started

\* The model returns its text: the body, fenced one way or not at all.
ModelReturnsText ==
    /\ sFence = "unset"
    /\ \E k \in FenceKinds :
          /\ sFence' = k
          /\ sText' = Wrap(k, sBody)
    /\ UNCHANGED <<sBody, sHtml>>
    /\ UNCHANGED <<uvars, gvars, pvars, cvars, fvars, ivars, bvars>>

\* Extract and clean HTML.
ExtractAndClean ==
    /\ sFence # "unset"
    /\ sHtml = Pending
    /\ sHtml' = CleanHtml(sText)
    /\ UNCHANGED <<sBody, sFence, sText>>
    /\ UNCHANGED <<uvars, gvars, pvars, cvars, fvars, ivars, bvars>>

SNext == ModelReturnsText \/ ExtractAndClean

SpecSanitize == SInit /\ [][SNext]_vars

\* The system prompt, on every custom instruction of the form.
PInit ==
    /\ UploadsIdle
    /\ histFile = EmptyHistory
    /\ CleanUpIdle
    /\ CostIdle
    /\ FileIdle
    /\ ImageIdle
    /\ Started
    /\ pBody \in {NoField} \cup { Field(t) : t \in PromptTexts }
    /\ pCustom = <<"?">>
    /\ pPrompt = <<>>

\* const customPrompt = req.body.prompt || ''
ReadCustomPrompt ==
    /\ pCustom = <<"?">>
    /\ pCustom' = CustomPromptOf(pBody)
    /\ UNCHANGED <<pBody, pPrompt>>
    /\ UNCHANGED <<uvars, gvars, svars, cvars, fvars, ivars, bvars>>

\* Build the system prompt
BuildSystemPrompt ==
    /\ pCustom # <<"?">>
    /\ pPrompt = <<>>
    /\ pPrompt' = SystemPrompt(pCustom)
    /\ UNCHANGED <<pBody, pCustom>>
    /\ UNCHANGED <<uvars, gvars, svars, cvars, fvars, ivars, bvars>>

PNext == ReadCustomPrompt \/ BuildSystemPrompt

SpecPrompt == PInit /\ [][PNext]_vars

\* The uploads when the model may also return an empty text, on an empty
\* history.
InitReplies ==
    /\ UploadsIdle
    /\ histFile = EmptyHistory
    /\ CleanUpIdle
    /\ PromptIdle
    /\ CostIdle
    /\ FileIdle
    /\ ImageIdle
    /\ Started

NextReplies ==
    \/ Tick
    \/ \E r \in Requests : MulterUpload(r)
    \/ \E r \in Requests : UploadHandler(r)
    \/ \E r \in Requests : ModelRespondsOrEmpty(r)
    \/ \E r \in Requests : Thumbnail(r)
    \/ \E r \in Requests : ReadHistory(r)
    \/ \E r \in Requests : SaveHistory(r)

SpecReplies == InitReplies /\ [][NextReplies]_vars

\* The token counts calculateCost is applied to: the small ones, those
\* about a million, and the most tokens a message may have.
TokenCounts ==
    (0..MaxSmallCount) \cup {MILLION - 1, MILLION, MILLION + 1, MAX_TOKENS}

\* calculateCost, on every pair of token counts; a second count of input
\* tokens stands by.
CInit ==
    /\ UploadsIdle
    /\ histFile = EmptyHistory
    /\ CleanUpIdle
    /\ PromptIdle
    /\ cInput \in TokenCounts
    /\ cExtra \in TokenCounts
    /\ cOutput \in TokenCounts
    /\ cCosts = NoCosts
    /\ FileIdle
    /\ ImageIdle
    /\ Started

\* const costs = calculateCost(input_tokens, output_tokens)
CalculateCosts ==
    /\ cCosts = NoCosts
    /\ cCosts' = CalculateCost(cInput, cOutput)
    /\ UNCHANGED <<cInput, cExtra, cOutput>>
    /\ UNCHANGED <<uvars, gvars, svars, pvars, fvars, ivars, bvars>>

CNext == CalculateCosts

SpecCost == CInit /\ [][CNext]_vars

\* The lengths multer is given: the small ones, and those about the
\* documented limit and about the limit of the code.
FileSizes ==
    (0..MaxSizeDelta)
    \cup { DOCUMENTED_SIZE_LIMIT + d : d \in (0 - MaxSizeDelta)..MaxSizeDelta }
    \cup { FILE_SIZE_LIMIT + d : d \in (0 - MaxSizeDelta)..MaxSizeDelta }

UnknownError == "?"

\* multer, on every type and length of a file part.
FInit ==
    /\ UploadsIdle
    /\ histFile = EmptyHistory
    /\ CleanUpIdle
    /\ PromptIdle
    /\ CostIdle
    /\ ImageIdle
    /\ Started
    /\ fMime \in {TextPlain, ImagePng}
    /\ fSize \in FileSizes
    /\ fError = UnknownError

\* upload.single('whiteboard') reads the file part.
MulterReadsFile ==
    /\ fError = UnknownError
    /\ fError' = FileError(fMime, fSize)
    /\ UNCHANGED <<fMime, fSize>>
    /\ UNCHANGED <<uvars, gvars, svars, pvars, cvars, ivars, bvars>>

FNext == MulterReadsFile

SpecLimit == FInit /\ [][FNext]_vars

\* The values of ANTHROPIC_API_KEY in the environment: not there, the empty
\* text, a key.
ApiKeys == {"absent", "empty", "set"}

\* !process.env.ANTHROPIC_API_KEY is false: the variable holds a text that
\* is not empty.
KeyIsDefined(key) == key # "absent"
HasKey(key) == key = "set"

\* The process has ended: process.exit(1) of the key check, or of the catch
\* of startServer and of an exception while the module loads.
Exited == boot \in {"nokey", "failed"}

BootIdle ==
    /\ apiKey \in ApiKeys
    /\ boot = "load"
    /\ exitCode = Unset

\* The process ends with process.exit(1) in state why.
Exit(why) ==
    /\ boot' = why
    /\ exitCode' = 1

\* new Anthropic({ apiKey }) while the module loads: the library of the
\* client may throw on a missing key, which ends the process.
CreateClient ==
    /\ boot = "load"
    /\ \/ boot' = "start" /\ UNCHANGED exitCode
       \/ ~HasKey(apiKey) /\ Exit("failed")
    /\ UNCHANGED apiKey
    /\ UNCHANGED <<uvars, gvars, svars, pvars, cvars, fvars, ivars>>

\* startServer: ensureDirectories returns, or mkdir throws and the catch
\* ends the process.
EnsureDirectories ==
    /\ boot = "start"
    /\ \/ boot' = "checked" /\ UNCHANGED exitCode
       \/ Exit("failed")
    /\ UNCHANGED apiKey
    /\ UNCHANGED <<uvars, gvars, svars, pvars, cvars, fvars, ivars>>

\* startServer: the test of the key, then app.listen.
Listen ==
    /\ boot = "checked"
    /\ IF ~HasKey(apiKey)
       THEN Exit("nokey")
       ELSE boot' = "listening" /\ UNCHANGED exitCode
    /\ UNCHANGED apiKey
    /\ UNCHANGED <<uvars, gvars, svars, pvars, cvars, fvars, ivars>>

\* The start of the process, then the uploads.
BInit ==
    /\ UploadsIdle
    /\ histFile = EmptyHistory
    /\ CleanUpIdle
    /\ PromptIdle
    /\ CostIdle
    /\ FileIdle
    /\ ImageIdle
    /\ BootIdle

BNext ==
    \/ CreateClient
    \/ EnsureDirectories
    \/ Listen
    \/ Next

SpecStartup == BInit /\ [][BNext]_vars

\* The quotient a / b rounded to the nearest integer.
RoundDiv(a, b) == (2 * a + b) \div (2 * b)

\* The side of length side of an image whose longer side, of length
\* longest, becomes max: no side is left without a pixel.
Scaled(side, longest, max) ==
    IF RoundDiv(side * max, longest) < 1 THEN 1 ELSE RoundDiv(side * max, longest)

\* resize(max, max, { fit: 'inside' }): the image is scaled, down or up, so
\* that its longer side is max.
ResizeInsideEnlarging(w, h, max) ==
    IF w >= h
    THEN [width |-> max, height |-> Scaled(h, w, max)]
    ELSE [width |-> Scaled(w, h, max), height |-> max]

\* resize(max, max, { fit: 'inside', withoutEnlargement: true }): an image
\* that fits in max by max keeps its size, a larger one is scaled down so
\* that its longer side is max.
ResizeInside(w, h, max) ==
    IF w <= max /\ h <= max
    THEN [width |-> w, height |-> h]
    ELSE IF w >= h
         THEN [width |-> max, height |-> Scaled(h, w, max)]
         ELSE [width |-> Scaled(w, h, max), height |-> max]

\* The widths and heights of the source images: the small ones, those
\* about MAX_IMAGE_SIZE, and those about its multiples.
ImageDims ==
    (1..MaxDimDelta)
    \cup { MAX_IMAGE_SIZE + d : d \in (0 - MaxDimDelta)..MaxDimDelta }
    \cup { k * MAX_IMAGE_SIZE + d : k \in 2..4, d \in 0..MaxDimDelta }

\* compressImage threw: no image was written.
NoImage == [width |-> Unset, height |-> Unset]

\* compressImage, on every size of a source image.
IInit ==
    /\ UploadsIdle
    /\ histFile = EmptyHistory
    /\ CleanUpIdle
    /\ PromptIdle
    /\ CostIdle
    /\ FileIdle
    /\ Started
    /\ iWidth \in ImageDims
    /\ iHeight \in ImageDims
    /\ iOut = NoSize

\* compressImage writes the resized JPEG, or sharp throws on a file it
\* cannot read and the error is thrown again.
CompressImage ==
    /\ iOut = NoSize
    /\ \/ iOut' = ResizeInside(iWidth, iHeight, MAX_IMAGE_SIZE)
       \/ iOut' = NoImage
    /\ UNCHANGED <<iWidth, iHeight>>
    /\ UNCHANGED <<uvars, gvars, svars, pvars, cvars, fvars, bvars>>

INext == CompressImage

SpecImage == IInit /\ [][INext]_vars

\* The step of request r in the route handler: one await of it settles.
\* The position of the request leaves one of the steps possible at most.
HandlerStep(r) ==
    \/ UploadHandler(r)
    \/ ModelResponds(r)
    \/ Thumbnail(r)
    \/ ReadHistory(r)
    \/ SaveHistory(r)

\* Every await of a request settles: the file operations and the call of
\* the model return or throw.
Settling == \A r \in Requests : WF_vars(HandlerStep(r))

\* The uploads that come within one tick of the clock, which no step of a
\* request waits on.
NextSettling ==
    \/ \E r \in Requests : MulterUpload(r)
    \/ \E r \in Requests : HandlerStep(r)

\* The uploads when every await settles; nothing makes a client send a
\* request.
SpecSettling == Init /\ [][NextSettling]_vars /\ Settling

\* ------------------------------------------------------------------------
\* Properties
\* ------------------------------------------------------------------------

\* The sessions a history file holds: those of a document that can be read
\* and parsed, none otherwise.
SessionsOf(file) == IF file.kind = "doc" THEN file.sessions ELSE <<>>

\* The session identifiers in a list of sessions.
IdsOf(sessions) == { sessions[i].sessionId : i \in 1..Len(sessions) }

Min(a, b) == IF a < b THEN a ELSE b

\* Request r logged that its history was saved.
Saved(r) == "History saved successfully" \in logs[r]

\* C1: the session list written to the history file, and the list any
\* request hands to saveHistory, never has more than 100 entries.
C1_HistoryAtMostLimit ==
    /\ Len(SessionsOf(histFile)) <= HISTORY_LIMIT
    /\ \A r \in Requests : Len(history[r]) <= HISTORY_LIMIT

\* C1: two requests appended to a history of 99 sessions and the file
\* holds 100: the oldest session was dropped.
C1_Witness ==
    /\ Len(SessionsOf(histFile)) = HISTORY_LIMIT
    /\ \E r, q \in Requests :
          /\ r # q
          /\ {r, q} \subseteq IdsOf(SessionsOf(histFile))

\* C2: when the write of addToHistory(s) succeeds and no other append is
\* in flight, the file holds s at index 0 and after it the sessions stored
\* before, in their order, less the oldest ones beyond 100 entries.
C2_PrependsAndKeepsOrder ==
    [][\A r \in Requests :
          (pc[r] = "histSave" /\ pc'[r] = "done" /\ Saved(r)')
          => LET before == SessionsOf(histFile)
                 after  == SessionsOf(histFile')
             IN  /\ histFile'.kind = "doc"
                 /\ Len(after) = Min(Len(before) + 1, HISTORY_LIMIT)
                 /\ after[1] = HistoryEntry(r, result[r])
                 /\ \A i \in 2..Len(after) : after[i] = before[i - 1]]_vars

\* C2: two appends in turn on a history of 99 sessions: the later session
\* first, the earlier one second, then the stored ones less the oldest.
C2_Witness ==
    /\ Len(SessionsOf(histFile)) = HISTORY_LIMIT
    /\ \E r, q \in Requests :
          /\ r # q
          /\ pc[r] = "done" /\ pc[q] = "done"
          /\ histFile.sessions[1].sessionId = r
          /\ histFile.sessions[2].sessionId = q
          /\ histFile.sessions[3] = StoredSession(1)
          /\ histFile.sessions[HISTORY_LIMIT] = StoredSession(HISTORY_LIMIT - 2)

\* The history file, found by existsSync, holds no document with a
\* sessions list, or there is no file.
Damaged(file) == file.kind \in {"absent", "unreadable", "text", "object", "number"}

\* C3: for a history file that is missing, unreadable or corrupt,
\* loadHistory returns a document with an empty sessions list and
\* GET /history answers success with total 0.
C3_DamagedFileLoadsEmpty ==
    [][(gpc # "done" /\ gpc' = "done" /\ Damaged(histFile))
       => /\ gLoaded' = EmptyHistory
          /\ gResponse'.status = 200
          /\ gResponse'.success
          /\ gResponse'.total = 0]_vars

\* C4: a request whose build succeeded answers success with a 2xx status,
\* whatever happens to the history file.
C4_HistoryFailureNotFatal ==
    \A r \in Requests :
       (pc[r] = "done" /\ result[r].success)
       => /\ response[r].success
          /\ response[r].status \in 200..299

\* C5: every session in the history file is the entry of one request whose
\* build returned and whose index.html was written, or a session stored
\* before; no identifier occurs twice; a request answered with a failure
\* has no entry.
C5_OneEntryPerSuccessfulBuild ==
    LET ss == SessionsOf(histFile)
    IN  /\ \A i \in 1..Len(ss) :
              LET id == ss[i].sessionId
              IN  IF id \in Requests
                  THEN /\ result[id].success
                       /\ ss[i] = HistoryEntry(id, result[id])
                       /\ outDirs[result[id].outputDir].index.by # 0
                       /\ response[id].success
                  ELSE ss[i] = StoredSession(0 - id)
        /\ Cardinality(IdsOf(ss)) = Len(ss)
        /\ \A r \in Requests :
              (pc[r] = "done" /\ ~response[r].success) => r \notin IdsOf(ss)

\* C5: one request has its entry in the file, another was answered with a
\* failure after the model was called.
C5_Witness ==
    \E r, q \in Requests :
       /\ r \in IdsOf(SessionsOf(histFile))
       /\ pc[q] = "done" /\ ~response[q].success /\ calls[q] = 1

\* Request r answered success and logged its save, and the document in
\* the file does not hold its session.
Lost(r) ==
    /\ pc[r] = "done"
    /\ response[r].success
    /\ Saved(r)
    /\ histFile.kind = "doc"
    /\ r \notin IdsOf(histFile.sessions)

\* C6: a session is lost only to the write of another request: the
\* document then starts with the session of another request that logged
\* its save.
C6_LostOnlyToAnotherWriter ==
    \A r \in Requests :
       Lost(r) => /\ histFile.sessions # <<>>
                  /\ \E q \in Requests \ {r} :
                        /\ histFile.sessions[1].sessionId = q
                        /\ Saved(q)

\* C6: the lost update: two requests answered success and logged their
\* save, and the file holds the session of one of them only.
C6_Witness ==
    \E r, q \in Requests :
       /\ r # q
       /\ Lost(r)
       /\ pc[q] = "done" /\ response[q].success /\ Saved(q)
       /\ q \in IdsOf(histFile.sessions)

\* C7: no two requests have the same output directory.
C7_DistinctOutputDirs ==
    \A r, q \in Requests :
       (r # q /\ outputDir[r] # Unset /\ outputDir[q] # Unset)
       => outputDir[r] # outputDir[q]

\* C8: the content written to index.html begins with the document-type
\* declaration.
C8_BeginsWithDoctype ==
    sHtml # Pending => StartsWith(sHtml, DoctypePrefix)

\* C9: a body in a generic fence, in an html fence or in a fence with
\* another language tag is cleaned to what the unfenced body is cleaned to.
C9_FencesCleanAlike ==
    sHtml # Pending => sHtml = CleanHtml(sBody)

\* The template with no override section.
DefaultPrompt ==
    <<TemplateIntro, DesignSpecifications, FunctionalityRequirements,
      TechnicalRequirements, WhiteboardInterpretation, OutputRequirements>>

\* The custom instruction the form carries.
Instruction == IF pBody.present THEN pBody.text ELSE <<>>

\* C10: for a non-empty custom instruction the prompt is the default
\* template, design specifications included, with the instruction put in
\* after them between the override marks; for an empty one it is the
\* default template.
C10_InstructionAppended ==
    pPrompt # <<>>
    => IF Instruction # <<>>
       THEN \E i, j \in 1..Len(pPrompt) :
               LET k == j + Len(Instruction) + 1
               IN  /\ i < j
                   /\ k <= Len(pPrompt)
                   /\ pPrompt[i] = DesignSpecifications
                   /\ pPrompt[j] = OverridesHeader
                   /\ SubSeq(pPrompt, j + 1, k - 1) = Instruction
                   /\ pPrompt[k] = OverridesFooter
                   /\ SubSeq(pPrompt, 1, j - 1) \o SubSeq(pPrompt, k + 1, Len(pPrompt))
                         = DefaultPrompt
       ELSE pPrompt = DefaultPrompt

\* C10: a prompt built for an instruction of two words or more.
C10_Witness ==
    /\ pPrompt # <<>>
    /\ Len(Instruction) >= 2
    /\ Len(pPrompt) = Len(DefaultPrompt) + Len(Instruction) + 2

\* The sessions of the requests that a history list holds, in the file or
\* in the hands of a request.
Recorded(r) ==
    \/ r \in IdsOf(SessionsOf(histFile))
    \/ \E q \in Requests : r \in IdsOf(history[q])

\* Request r wrote a file of an output directory.
WroteOutput(r) ==
    \E t \in Clock : outDirs[t].index.by = r \/ outDirs[t].thumb.by = r

\* Request r carries a file whose MIME type does not start with image/.
NonImage(r) ==
    /\ kind[r] \notin {"unset", "none"}
    /\ ~StartsWith(MimeTypeOf(kind[r]), ImagePrefix)

\* C11: a request whose file has a MIME type that does not start with
\* image/ is answered at once with a failure: the step that takes the file
\* makes no output directory, the model is not called for the request, the
\* request writes no file and no history list holds its session.
C11_NonImageRejectedBeforeProcessing ==
    /\ [](\A r \in Requests :
             NonImage(r)
             => /\ pc[r] = "done"
                /\ ~response[r].success
                /\ calls[r] = 0
                /\ message[r] = NoMessage
                /\ ~result[r].success
                /\ ~WroteOutput(r)
                /\ ~Recorded(r))
    /\ [][\A r \in Requests :
             (~NonImage(r) /\ NonImage(r)')
             => /\ outDirs' = outDirs
                /\ histFile' = histFile
                /\ calls' = calls]_vars

\* C11: a request with a text file was rejected while another request made
\* its output directory and has its session in the file.
C11_Witness ==
    \E r, q \in Requests :
       /\ NonImage(r)
       /\ pc[r] = "done"
       /\ response[q].success
       /\ outDirs[response[q].outputDir].exists
       /\ q \in IdsOf(SessionsOf(histFile))

\* Request r failed the validation of its input: it has no file, or multer
\* refused its file for its type or its length.
ValidationFailure(r) ==
    /\ pc[r] = "done"
    /\ kind[r] = "none" \/ MulterError(kind[r]) # ""

\* C12: a request that fails the validation of its input (no file, no
\* image MIME type, file over the size limit) is answered with a 4xx
\* status and an error message.
C12_ValidationFailuresAre4xx ==
    \A r \in Requests :
       ValidationFailure(r)
       => /\ response[r].status \in 400..499
          /\ response[r].error # ""

\* C13: every failure response of POST /upload has a non-2xx status and a
\* JSON body with success false, the sessionId and an error message.
C13_FailureResponseShape ==
    \A r \in Requests :
       (pc[r] = "done" /\ ~response[r].success)
       => /\ response[r].status \notin 200..299
          /\ response[r].json
          /\ response[r].sessionId
          /\ response[r].error # ""

\* The message has no content block, a first block without text, or an
\* empty text.
Malformed(m) ==
    \/ m.content \in {"nocontent", "notext"}
    \/ m.content = "text" /\ m.text = <<>>

\* C14: a request whose model response is malformed or empty is answered
\* with a failure, and no history entry is written for it.
C14_MalformedReplyIsFatal ==
    \A r \in Requests :
       (pc[r] = "done" /\ Malformed(message[r]))
       => /\ ~response[r].success
          /\ response[r].status \notin 200..299
          /\ ~Recorded(r)

\* The call of the model for request r threw.
ModelThrew(r) ==
    /\ calls[r] >= 1
    /\ message[r] = NoMessage
    /\ pc[r] # "call"

\* C15: a request calls the model once at most; when the call throws, the
\* request is ended with a failure response and has made no other call.
C15_SingleModelCall ==
    \A r \in Requests :
       /\ calls[r] <= 1
       /\ ModelThrew(r)
          => /\ pc[r] = "done"
             /\ ~response[r].success
             /\ response[r].status \notin 200..299
             /\ calls[r] = 1

\* C15: the call of one request threw and the request was answered with
\* the failure, while another request, called once, succeeded.
C15_Witness ==
    \E r, q \in Requests :
       /\ ModelThrew(r)
       /\ response[r].error = "model"
       /\ response[q].success
       /\ calls[q] = 1

\* C16: when a request is answered success, the demoUrl of the response
\* names the output directory of the request, and index.html is in that
\* directory, written by the request with the cleaned text of its message.
C16_DemoUrlHoldsOwnOutput ==
    [][\A r \in Requests :
          (pc[r] # "done" /\ pc'[r] = "done" /\ response'[r].success)
          => LET d == outputDir[r]
             IN  /\ response'[r].demoUrl = d
                 /\ outDirs'[d].exists
                 /\ outDirs'[d].index =
                       [by |-> r, content |-> CleanHtml(message[r].text)]]_vars

\* The count of millionths that a text with six decimals writes: its
\* digits, the point left out.
Micros(s) == NaturalOf(SelectSeq(s, IsDigit))

\* The text is digits, a point, and six digits; the digits before the
\* point do not start with a zero unless there is only one.
SixDecimals(s) ==
    /\ Len(s) >= 8
    /\ s[Len(s) - 6] = "."
    /\ \A i \in 1..Len(s) : i # Len(s) - 6 => IsDigit(s[i])
    /\ Len(s) > 8 => s[1] # "0"

ZeroCost == <<"0", ".", "0", "0", "0", "0", "0", "0">>

\* C17: calculateCost(i, o) returns the texts, with exactly six decimals,
\* of 15 i millionths, of 75 o millionths and of their sum; for (0, 0) all
\* three are 0.000000, a million input tokens cost 15.000000 and a million
\* output tokens 75.000000.
C17_CostFormula ==
    cCosts # NoCosts
    => /\ SixDecimals(cCosts.inputCost)
       /\ SixDecimals(cCosts.outputCost)
       /\ SixDecimals(cCosts.totalCost)
       /\ Micros(cCosts.inputCost) = 15 * cInput
       /\ Micros(cCosts.outputCost) = 75 * cOutput
       /\ Micros(cCosts.totalCost) = 15 * cInput + 75 * cOutput
       /\ (cInput = 0 /\ cOutput = 0)
          => cCosts = [inputCost |-> ZeroCost, outputCost |-> ZeroCost,
                       totalCost |-> ZeroCost]
       /\ cInput = 1000000
          => cCosts.inputCost = <<"1", "5">> \o Tail(ZeroCost)
       /\ cOutput = 1000000
          => cCosts.outputCost = <<"7", "5">> \o Tail(ZeroCost)

\* C17: the costs of a million input tokens and 16384 output tokens.
C17_Witness ==
    /\ cInput = 1000000
    /\ cOutput = 16384
    /\ cCosts = [inputCost  |-> <<"1", "5">> \o Tail(ZeroCost),
                 outputCost |-> <<"1", ".", "2", "2", "8", "8", "0", "0">>,
                 totalCost  |-> <<"1", "6", ".", "2", "2", "8", "8", "0", "0">>]

\* C18: the input cost of a + b input tokens is, in millionths, the sum of
\* the input costs of a and of b input tokens, the output tokens being the
\* same.
C18_InputCostAdditive ==
    cCosts # NoCosts
    => Micros(CalculateCost(cInput + cExtra, cOutput).inputCost)
          = Micros(cCosts.inputCost)
            + Micros(CalculateCost(cExtra, cOutput).inputCost)

\* C18: one token and a million less one: together 15.000000.
C18_Witness ==
    /\ cCosts # NoCosts
    /\ cInput = 1
    /\ cExtra = MILLION - 1
    /\ cCosts.inputCost = <<"0", ".", "0", "0", "0", "0", "1", "5">>
    /\ CalculateCost(cInput + cExtra, cOutput).inputCost
          = <<"1", "5">> \o Tail(ZeroCost)

\* The token counts of the message of request r, as a result carries them.
TokensOf(r) ==
    [input |-> message[r].usage.input_tokens,
     output |-> message[r].usage.output_tokens]

\* The cost and the tokens of record rec are those of request r: the cost
\* is the one given, and the tokens are the counts of the message of r.
CostAndTokensOf(r, rec, cost) ==
    /\ rec.cost = cost
    /\ rec.tokens = TokensOf(r)
    /\ rec.tokens.input >= 0
    /\ rec.tokens.output >= 0

\* C19: when a request is answered success, costs is calculateCost of the
\* token counts of its message, and the cost and the tokens of the
\* response, and of the entry of the request in the list it hands to
\* saveHistory, are costs.totalCost parsed and these counts, which are not
\* negative.
C19_CostAndTokensOfTheCall ==
    [][\A r \in Requests :
          (pc[r] # "done" /\ pc'[r] = "done" /\ response'[r].success)
          => LET cost == ParseFloat(result[r].costs.totalCost)
             IN  /\ result[r].costs = CalculateCost(message[r].usage.input_tokens,
                                                    message[r].usage.output_tokens)
                 /\ CostAndTokensOf(r, response'[r], cost)
                 /\ history[r] # <<>>
                 /\ history[r][1].sessionId = r
                 /\ CostAndTokensOf(r, history[r][1], cost)]_vars

\* C19: two requests answered success, with their entries in the file and
\* costs that differ.
C19_Witness ==
    \E r, q \in Requests :
       /\ response[r].success /\ response[q].success
       /\ {r, q} \subseteq IdsOf(SessionsOf(histFile))
       /\ response[r].cost < response[q].cost
       /\ response[r].cost > 0

\* The thumbnail of request r failed.
ThumbnailFailed(r) == "Thumbnail creation failed" \in logs[r]

\* C20: a request whose thumbnail failed, index.html being written, has a
\* result of its build and is answered success.
C20_ThumbnailFailureNotFatal ==
    \A r \in Requests :
       (pc[r] = "done" /\ ThumbnailFailed(r))
       => /\ result[r].success
          /\ response[r].success
          /\ response[r].status \in 200..299

\* C21: an image file longer than 10 MB is refused for its length, and an
\* image file of 10 MB at most is not.
C21_TenMegabyteLimit ==
    (fError # UnknownError /\ StartsWith(fMime, ImagePrefix))
    => (fSize > DOCUMENTED_SIZE_LIMIT <=> fError = "File too large")

\* C22: with no ANTHROPIC_API_KEY in the environment the process never
\* listens and takes no request, and when it has ended its exit code is 1.
C22_NoKeyNoListening ==
    apiKey # "set" =>
        /\ boot # "listening"
        /\ \A r \in Requests : pc[r] = "idle" /\ response[r] = NoResponse
        /\ Exited => exitCode = 1

\* The key check of startServer has ended a process that has no key.
C22_Witness ==
    /\ apiKey \in {"absent", "empty"}
    /\ boot = "nokey"
    /\ exitCode = 1
    /\ \A r \in Requests : pc[r] = "idle"

\* compressImage has written an image.
Compressed == iOut \notin {NoSize, NoImage}

\* C23: the image compressImage writes is at most min(w, 1024) wide and at
\* most min(h, 1024) high, w and h being the width and height of the source.
C23_NeverLargerThanSourceOrMax ==
    Compressed =>
        /\ iOut.width >= 1
        /\ iOut.height >= 1
        /\ iOut.width <= Min(iWidth, MAX_IMAGE_SIZE)
        /\ iOut.height <= Min(iHeight, MAX_IMAGE_SIZE)

\* An image wider than MAX_IMAGE_SIZE was scaled down.
C23_Witness ==
    /\ Compressed
    /\ iWidth > MAX_IMAGE_SIZE
    /\ iHeight < iWidth
    /\ iOut.width = MAX_IMAGE_SIZE
    /\ iOut.height < iHeight

\* The output directory of the build of request r: that of the request in
\* flight, then that of its result.
DirOf(r) == IF outputDir[r] # Unset THEN outputDir[r] ELSE result[r].outputDir

\* The build of request r made its directory, and the image was compressed.
Prepared(r) ==
    /\ kind[r] = "image"
    /\ DirOf(r) # Unset
    /\ outDirs[DirOf(r)].exists

\* The model returned a text to request r and index.html was written.
IndexWritten(r) ==
    /\ Prepared(r)
    /\ calls[r] = 1
    /\ message[r].content = "text"
    /\ outDirs[DirOf(r)].index.by \in Requests

ThumbnailWritten(r) == IndexWritten(r) /\ outDirs[DirOf(r)].thumb.by \in Requests

\* createThumbnail has settled for request r: the file is written, or the
\* failure is logged.
ThumbnailFinished(r) ==
    /\ IndexWritten(r)
    /\ result[r].success
    /\ ThumbnailWritten(r) \/ ThumbnailFailed(r)

\* addToHistory has returned to request r: the file is written, or the
\* failure is logged.
AppendFinished(r) ==
    /\ ThumbnailFinished(r)
    /\ Saved(r) \/ "Failed to save history" \in logs[r]

\* The steps of request r so far came in the order of the pipeline, each
\* after the one before it had finished, and the steps up to the writing of
\* index.html each after the one before it had succeeded.
InOrder(r) ==
    /\ pc[r] = "call" => Prepared(r) /\ calls[r] = 1 /\ message[r] = NoMessage
    /\ pc[r] = "thumb" => IndexWritten(r) /\ ~result[r].success
    /\ Appending(r) => ThumbnailFinished(r) /\ ~AppendFinished(r)
    /\ Recorded(r) => ThumbnailFinished(r)
    /\ response[r].success => pc[r] = "done" /\ AppendFinished(r)
    /\ response[r] # NoResponse => pc[r] = "done"

\* C24 as stated: the steps of a request come in the order of the pipeline
\* and each comes only after the one before it succeeded.
C24_EachStepAfterSuccess ==
    \A r \in Requests :
       /\ InOrder(r)
       /\ (Appending(r) \/ Recorded(r)) => ThumbnailWritten(r)
       /\ response[r].success => Saved(r)

\* C24, amended: the steps of a request come in the order of the pipeline,
\* each after the one before it finished; the steps up to the writing of
\* index.html come only after the one before succeeded, a history entry is
\* appended only after index.html was written, and the success response is
\* sent only after addToHistory returned. A failure of the thumbnail or of
\* the saving of the history does not stop the steps after it.
C24_StepsInOrder == \A r \in Requests : InOrder(r)

\* A request is answered success, its session recorded, after its thumbnail
\* failed.
C24_Witness ==
    \E r \in Requests :
       /\ response[r].success
       /\ Recorded(r)
       /\ ThumbnailFailed(r)
       /\ Saved(r)

\* Request r is answered with a failure.
AnsweredFailure(r) ==
    /\ pc[r] = "done"
    /\ response[r] # NoResponse
    /\ ~response[r].success

\* C25: a request answered with a failure has left no index.html and no
\* thumbnail.jpg in an output directory.
C25_FailureLeavesNoOutput ==
    \A r \in Requests : AnsweredFailure(r) => ~WroteOutput(r)

\* The thumbnail URL url, reported for request r, names a thumbnail.jpg
\* that was written, and none is reported when the thumbnail failed.
ThumbnailUrlHolds(r, url) ==
    /\ url # Unset => outDirs[url].thumb.by \in Requests
    /\ ThumbnailFailed(r) => url = Unset

\* The same of the entries the requests have in a list of sessions.
ThumbnailUrlsHold(sessions) ==
    \A i \in 1..Len(sessions) :
       sessions[i].sessionId \in Requests
       => ThumbnailUrlHolds(sessions[i].sessionId, sessions[i].thumbnailUrl)

\* C26: a thumbnailUrl of a success response or of a history entry names a
\* thumbnail.jpg written in the output directory of the session, and a
\* session whose thumbnail failed reports no thumbnailUrl.
C26_ThumbnailUrlNamesWrittenFile ==
    /\ \A r \in Requests :
          response[r].success => ThumbnailUrlHolds(r, response[r].thumbnailUrl)
    /\ ThumbnailUrlsHold(SessionsOf(histFile))
    /\ \A q \in Requests : ThumbnailUrlsHold(history[q])

\* The route handler was called for request r.
ReachedHandler(r) ==
    /\ kind[r] \in UploadKinds
    /\ MulterError(kind[r]) = ""

\* No request has two responses, and a request the handler has ended has
\* one.
AnsweredOnceAtMost ==
    \A r \in Requests :
       /\ response[r].sent <= 1
       /\ (ReachedHandler(r) /\ pc[r] = "done") => response[r].sent = 1
       /\ response[r].sent = 1 <=> response[r] # NoResponse

\* C27: a request that reaches the route handler is never answered twice,
\* and it is answered once in the end when every call and file operation
\* of it returns or throws.
C27_AnsweredExactlyOnce ==
    /\ []AnsweredOnceAtMost
    /\ \A r \in Requests :
          (pc[r] = "handler") ~> (pc[r] = "done" /\ response[r].sent = 1)

\* The handler has answered a request after the call of the model.
C27_Witness ==
    \E r \in Requests :
       /\ ReachedHandler(r)
       /\ calls[r] = 1
       /\ pc[r] = "done"
       /\ response[r].sent = 1

====
